---------------------------- MODULE Spec2Model ----------------------------
(***************************************************************************)
(* Script hosting bot (src/main.py): the process registry                  *)
(* RUNNING_PROCESSES with run_script / get_running_scripts / stop_script,  *)
(* the per-user scripts directory, the dependency installer and the        *)
(* /upload conversation.                                                   *)
(*                                                                         *)
(* Strings are sequences of one-character strings, so that the f-string    *)
(* key "{user_id}_{script_name}", str.startswith and str.replace are       *)
(* computed as Python computes them.                                       *)
(*                                                                         *)
(* The bot is one asyncio event loop: a handler that contains no await     *)
(* between two statements runs them without interleaving, so each call of  *)
(* run_script, get_running_scripts and stop_script is one step.  Child     *)
(* processes run on their own and exit at any time (ChildExit).            *)
(***************************************************************************)
EXTENDS Integers, Sequences, FiniteSets, TLC

(***************************************************************************)
(* Bounds of the model.                                                    *)
(***************************************************************************)
\* children spawned in one behaviour
MaxProcs == 2
\* installer invocations counted per upload session
MaxInstalls == 2
\* the last second the clock reaches
MaxClock == 1

(***************************************************************************)
(* Inputs.                                                                 *)
(***************************************************************************)
\* Telegram user ids
Users == {1, 2}

\* "app.py"
ScriptApp == <<"a", "p", "p", ".", "p", "y">>
\* "1_app.py": a file name that contains user 1's key prefix "1_"
ScriptPfx == <<"1", "_", "a", "p", "p", ".", "p", "y">>
\* the users whose /upload conversations are followed: the conversations of
\* two users share no state (conv, user_data, the directories are per user)
Uploaders == {1}

\* file names a user uploads and runs
Names == {ScriptApp, ScriptPfx}
\* the scripts of each user: the first has both, the second the plain one
NamesOf(user_id) == IF user_id = 1 THEN Names ELSE {ScriptApp}

\* "no value": Python's None, and the empty slots of the history record
None == "None"

(***************************************************************************)
(* Python string operations.                                               *)
(***************************************************************************)
Digits == <<"0", "1", "2", "3", "4", "5", "6", "7", "8", "9">>

RECURSIVE Str(_)
\* str(n) for n >= 0
Str(n) ==
    IF n < 10 THEN <<Digits[n + 1]>>
    ELSE Str(n \div 10) \o <<Digits[(n % 10) + 1]>>

\* s.startswith(p)
StartsWith(s, p) ==
    /\ Len(p) <= Len(s)
    /\ SubSeq(s, 1, Len(p)) = p

RECURSIVE Replace(_, _)
\* s.replace(old, ""): every non-overlapping occurrence of old, left to right
Replace(s, old) ==
    IF Len(s) < Len(old) \/ Len(old) = 0 THEN s
    ELSE IF SubSeq(s, 1, Len(old)) = old
         THEN Replace(SubSeq(s, Len(old) + 1, Len(s)), old)
         ELSE <<Head(s)>> \o Replace(Tail(s), old)

\* s.endswith(p)
EndsWith(s, p) ==
    /\ Len(p) <= Len(s)
    /\ SubSeq(s, Len(s) - Len(p) + 1, Len(s)) = p

\* s.split('_')[0]: what precedes the first underscore, all of s if none
SplitFirst(s) ==
    LET at == {i \in 1..Len(s) : s[i] = "_"}
    IN  IF at = {} THEN s
        ELSE SubSeq(s, 1, (CHOOSE i \in at : \A j \in at : i <= j) - 1)

\* f"{user_id}_{script_name}"
ProcessKey(user_id, script_name) == Str(user_id) \o <<"_">> \o script_name

\* the prefix without the separator: f"{user_id}"
UserPrefix_NoSeparator(user_id) == Str(user_id)

\* f"{user_id}_"
UserPrefix(user_id) == Str(user_id) \o <<"_">>

\* key.replace(user_prefix, "")
ScriptNameOf(key, user_prefix) == Replace(key, user_prefix)

(***************************************************************************)
(* UserManager: the directories of a user.  A path is the sequence of its  *)
(* components; p / c appends the component c.                              *)
(***************************************************************************)
\* Path('user_data')
USER_DATA_DIR == <<"user_data">>

\* every user given the data directory itself
get_user_dir_Shared(user_id) == USER_DATA_DIR

\* USER_DATA_DIR / str(user_id)
get_user_dir(user_id) == USER_DATA_DIR \o <<Str(user_id)>>

\* get_user_dir(user_id) / 'venv'
get_user_venv_dir(user_id) == get_user_dir(user_id) \o <<"venv">>

\* get_user_dir(user_id) / 'scripts'
get_user_scripts_dir(user_id) == get_user_dir(user_id) \o <<"scripts">>

\* get_user_dir(user_id) / 'logs'
get_user_logs_dir(user_id) == get_user_dir(user_id) \o <<"logs">>

(***************************************************************************)
(* Python dict, insertion ordered: a sequence of [key, proc] items.        *)
(***************************************************************************)
DictHas(d, k) == \E i \in 1..Len(d) : d[i].key = k

DictGet(d, k) == d[CHOOSE i \in 1..Len(d) : d[i].key = k].proc

\* d[k] = v: an existing key keeps its place
DictSet(d, k, v) ==
    IF DictHas(d, k)
    THEN [i \in 1..Len(d) |-> IF d[i].key = k THEN [key |-> k, proc |-> v] ELSE d[i]]
    ELSE Append(d, [key |-> k, proc |-> v])

\* del d[k] left out: the item stays
DictDel_Keep(d, k) == d

\* del d[k]
DictDel(d, k) == SelectSeq(d, LAMBDA e : e.key # k)


(***************************************************************************)
(* State.                                                                  *)
(***************************************************************************)
VARIABLES
    files,              \* <<user, name>>: the files in user_data/<user>/scripts
    venv,               \* user -> state of user_data/<user>/venv
    reqFile,            \* user -> content of user_data/<user>/requirements.txt
    procs,              \* the children spawned so far, by pid: [user, script, alive],
                        \* or Gone
    RUNNING_PROCESSES,  \* the registry: an ordered dict key -> pid
    conv,               \* user -> state of the /upload conversation
    upload_step,        \* user -> context.user_data['upload_step']
    sess,               \* user -> what happened in the user's latest upload session
    logs,               \* the files in user_data/<user>/logs: [user, name, script,
                        \* mtime], script being the script whose start opened it
    now,                \* the clock, in seconds
    last,               \* the latest call of ScriptManager or of a conversation
                        \* handler, and what it returned; names is the list the
                        \* call made: the names listed, the calls on the Popen
                        \* object, the interpreter in the argv of the spawn
    waiting             \* the stop_script call that is inside process.wait(timeout=10):
                        \* [user, script, process], or Idle

vars == <<files, venv, reqFile, procs, RUNNING_PROCESSES, conv, upload_step, sess,
          logs, now, last, waiting>>

\* Conversation states (range(3)) and ConversationHandler.END
UPLOAD_REQUIREMENTS == 0
UPLOAD_FILES == 1
UPLOAD_MAIN_SCRIPT == 2
END == -1

\* contents of a requirements.txt document
Manifests == {"requests==2.31", "flask"}

\* the texts a user sends inside a conversation
Texts == {"/skip", "/done", "/cancel", "/upload"}

\* no file name, no script name
NoName == <<>>

\* An update: a text message, or a document with a file name.
Commands == [text : Texts, doc : {NoName}]
Documents == [text : {None}, doc : Names]
Messages == Commands \cup Documents

\* how terminate() followed by wait(timeout=10) ends for a live child
WaitOutcomes == {"exits", "timeout"}
\* ... and the cases in which sending the signal raises
SignalFaults == {"term_raises", "kill_raises"}

\* what is left of a child that exited and is referred to nowhere
Gone == [user |-> 0, script |-> NoName, alive |-> FALSE, log |-> <<>>]

\* no stop_script call is inside its wait
Idle == [user |-> 0, script |-> NoName, process |-> 0]

NewSession == [manifest |-> FALSE, sent |-> {}, installs |-> 0, outcome |-> "active"]

Init ==
    /\ files = {}
    /\ venv = [u \in Users |-> "absent"]
    /\ reqFile = [u \in Users |-> None]
    /\ procs = <<>>
    /\ RUNNING_PROCESSES = <<>>
    /\ conv = [u \in Users |-> END]
    /\ upload_step = [u \in Users |-> None]
    /\ sess = [u \in Users |-> [NewSession EXCEPT !.outcome = "none"]]
    /\ logs = {}
    /\ now = 0
    /\ waiting = Idle
    /\ last = [op |-> "init", user |-> 0, script |-> NoName, text |-> None,
               ok |-> TRUE, msg |-> None, names |-> <<>>]

\* The record of one handler call.
Called(op, user, script, text, ok, msg, names) ==
    [op |-> op, user |-> user, script |-> script, text |-> text,
     ok |-> ok, msg |-> msg, names |-> names]

(***************************************************************************)
(* Child processes.                                                        *)
(***************************************************************************)
\* process.poll() is None
Poll(ps, pid) == ps[pid].alive

\* the child has exited (by itself, after SIGTERM, or after SIGKILL)
Exited(ps, pid) == [ps EXCEPT ![pid].alive = FALSE]

\* A child that has exited and that no registry item refers to leaves
\* nothing behind: its Popen object is garbage.
Reap(ps, reg) ==
    [pid \in 1..Len(ps) |->
        IF ~ps[pid].alive /\ ~\E i \in 1..Len(reg) : reg[i].proc = pid
        THEN Gone ELSE ps[pid]]

\* A running child exits on its own; nothing is told to the bot.
ChildExit(pid) ==
    /\ procs[pid].alive
    /\ procs' = Reap(Exited(procs, pid), RUNNING_PROCESSES)
    /\ UNCHANGED <<files, venv, reqFile, RUNNING_PROCESSES, conv, upload_step, sess,
                   logs, now, last, waiting>>

(***************************************************************************)
(* ScriptManager.run_script                                                *)
(***************************************************************************)
\* the interpreters looked for in a venv directory, in the order tried
venv_python_candidates ==
    << <<"bin", "python">>, <<"bin", "python3">>,
       <<"Scripts", "python.exe">>, <<"Scripts", "python">> >>

\* sys.executable
sys_executable == <<"sys.executable">>

\* What the venv directory holds for each candidate: nothing, a file that
\* fails the probe (non-zero exit, exception or timeout), or one passing it.
\* A venv made on Linux has bin/python and bin/python3; a directory left by
\* a failed creation may have neither.
CandidateSets(v) ==
    IF v = "absent"
    THEN {<<"missing", "missing", "missing", "missing">>}
    ELSE {<<"missing", "missing", "missing", "missing">>,
          <<"works", "works", "missing", "missing">>,
          <<"fails", "works", "missing", "missing">>,
          <<"fails", "fails", "missing", "missing">>}

\* What a venv directory holds when nothing went wrong after its creation:
\* bin/python and bin/python3, both working, if the creation completed.
FreshVenv(v) ==
    IF v = "ready" THEN <<"works", "works", "missing", "missing">>
    ELSE <<"missing", "missing", "missing", "missing">>

\* the first candidate that exists, taken without a probe
PythonChoice_Unprobed(user_id, cands) ==
    LET there == {i \in 1..Len(cands) : cands[i] # "missing"}
    IN  IF venv[user_id] # "absent" /\ there # {}
        THEN [python_source |-> "virtual environment",
              python_path |-> get_user_venv_dir(user_id)
                  \o venv_python_candidates[CHOOSE i \in there : \A j \in there : i <= j]]
        ELSE [python_source |-> "system", python_path |-> sys_executable]

\* python_path and python_source after the detection: sys.executable unless
\* the venv directory exists and a candidate exists, is a file and exits
\* with 0 on the probe; the first such candidate wins.
PythonChoice(user_id, cands) ==
    LET passing == {i \in 1..Len(cands) : cands[i] = "works"}
    IN  IF venv[user_id] # "absent" /\ passing # {}
        THEN [python_source |-> "virtual environment",
              python_path |-> get_user_venv_dir(user_id)
                  \o venv_python_candidates[CHOOSE i \in passing : \A j \in passing : i <= j]]
        ELSE [python_source |-> "system", python_path |-> sys_executable]

\* datetime.now().strftime("%Y%m%d_%H%M%S"): a date and the second of the
\* day, joined by an underscore
Timestamp(t) == <<"0", "_">> \o Str(t)

\* f"{script_name}_{timestamp}.log"
LogName(script_name, t) ==
    script_name \o <<"_">> \o Timestamp(t) \o <<".", "l", "o", "g">>

\* open(log_file, 'w') in user_id's logs directory: a file of that name is
\* truncated, else the file is created
OpenW(ls, user_id, name, script_name, t) ==
    {l \in ls : ~(l.user = user_id /\ l.name = name)}
        \cup {[user |-> user_id, name |-> name, script |-> script_name, mtime |-> t]}

\* what the environment answers to run_script: sys.executable is missing,
\* Popen() raises (the log file is open by then), or neither
RunOutcomes == {"ok", "no_sys_python", "spawn_raises"}

\* the except clause cleaning up with RUNNING_PROCESSES.pop(process_key, None)
SpawnFailed_Evict(reg, ps, process_key) ==
    [ok |-> FALSE, msg |-> "Error running script", python_source |-> None, argv |-> <<>>,
     reg |-> DictDel(reg, process_key), procs |-> ps]

\* Popen() raised: the except clause logs and reports; the
\* assignment to RUNNING_PROCESSES was not reached.
SpawnFailed(reg, ps, process_key) ==
    [ok |-> FALSE, msg |-> "Error running script", python_source |-> None, argv |-> <<>>,
     reg |-> reg, procs |-> ps]

\* run_script on registry reg and children ps; cands: what the venv
\* directory holds for each candidate; env: one of RunOutcomes; t: the clock.
run_script(reg, ps, user_id, script_name, cands, env, t) ==
    LET choice == PythonChoice(user_id, cands)
        sysExists == env # "no_sys_python"
        spawnOk == env # "spawn_raises"
        process_key == ProcessKey(user_id, script_name)
        process == Len(ps) + 1
    IN  IF <<user_id, script_name>> \notin files
        THEN [ok |-> FALSE, msg |-> "Script not found", python_source |-> None, argv |-> <<>>,
              reg |-> reg, procs |-> ps]
        ELSE IF choice.python_source = "system" /\ ~sysExists
        THEN [ok |-> FALSE, msg |-> "Python executable not found",
              python_source |-> None, argv |-> <<>>, reg |-> reg, procs |-> ps]
        ELSE IF ~spawnOk
        THEN SpawnFailed(reg, ps, process_key)
        ELSE [ok |-> TRUE, msg |-> "started", python_source |-> choice.python_source,
              argv |-> <<choice.python_path>>,
              reg |-> DictSet(reg, process_key, process),
              procs |-> Append(ps, [user |-> user_id, script |-> script_name,
                                    alive |-> TRUE,
                                    log |-> LogName(script_name, t)])]

\* button_callback, data "run_<script_name>", the venv directory holding
\* cands and the environment answering env
button_run_in(user, script_name, cands, env) ==
    LET r == run_script(RUNNING_PROCESSES, procs, user, script_name, cands, env, now)
    IN  /\ Len(r.procs) <= MaxProcs
        /\ RUNNING_PROCESSES' = r.reg
        /\ procs' = Reap(r.procs, r.reg)
        /\ logs' = IF r.msg \in {"started", "Error running script"}
                   THEN OpenW(logs, user, LogName(script_name, now), script_name, now)
                   ELSE logs
        /\ last' = Called("run_script", user, script_name, r.python_source, r.ok,
                          r.msg, r.argv)
        /\ UNCHANGED <<files, venv, reqFile, conv, upload_step, sess, now, waiting>>

\* what the environment can answer to a start of this script: nothing is
\* asked of it when the script is not there
RunEnvs(user, script_name) ==
    IF <<user, script_name>> \in files THEN RunOutcomes ELSE {"ok"}

\* button_callback, data "run_<script_name>"
button_run(user, script_name) ==
    \E cands \in CandidateSets(venv[user]), env \in RunEnvs(user, script_name) :
        button_run_in(user, script_name, cands, env)

(***************************************************************************)
(* ScriptManager.get_running_scripts                                       *)
(***************************************************************************)
get_running_scripts(reg, ps, user_id) ==
    LET user_prefix == UserPrefix(user_id)
        Mine(e) == StartsWith(e.key, user_prefix)
        live == SelectSeq(reg, LAMBDA e : Mine(e) /\ Poll(ps, e.proc))
    IN  [running |-> [i \in 1..Len(live) |-> ScriptNameOf(live[i].key, user_prefix)],
         reg |-> SelectSeq(reg, LAMBDA e : ~(Mine(e) /\ ~Poll(ps, e.proc)))]

\* /stop: lists the user's running scripts
stop_command(user) ==
    LET r == get_running_scripts(RUNNING_PROCESSES, procs, user)
    IN  /\ RUNNING_PROCESSES' = r.reg
        /\ procs' = Reap(procs, r.reg)
        /\ last' = Called("get_running_scripts", user, NoName, None, TRUE, None, r.running)
        /\ UNCHANGED <<files, venv, reqFile, conv, upload_step, sess, logs, now, waiting>>

(***************************************************************************)
(* ScriptManager.stop_script                                               *)
(***************************************************************************)
\* the else branch answering as RUNNING_PROCESSES.pop(process_key, None) would
StopAbsent_Pop(reg, ps) ==
    [ok |-> TRUE, msg |-> "stopped successfully", raised |-> FALSE,
     calls |-> <<>>, reg |-> reg, procs |-> ps]

\* the else branch: the key is not in the registry
StopAbsent(reg, ps) ==
    [ok |-> FALSE, msg |-> "Script not running or not found", raised |-> FALSE,
     calls |-> <<>>, reg |-> reg, procs |-> ps]

\* wait: how terminate() and wait(timeout=10) end for a child that is still
\* running.  For a child that has already exited terminate() sends nothing
\* and wait() returns at once.

\* the calls with a kill() whether or not the child exited in time
StopCalls_AlwaysKill(wait) ==
    IF wait = "term_raises" THEN <<"terminate">> ELSE <<"terminate", "wait", "kill">>

\* The calls stop_script makes on the Popen object, in order: terminate(),
\* then wait(timeout=10), then kill() in the TimeoutExpired handler.
StopCalls(wait) ==
    IF wait = "term_raises" THEN <<"terminate">>
    ELSE IF wait = "exits" THEN <<"terminate", "wait">>
    ELSE <<"terminate", "wait", "kill">>

stop_script(reg, ps, user_id, script_name, wait) ==
    LET process_key == ProcessKey(user_id, script_name)
    IN  IF DictHas(reg, process_key)
        THEN LET process == DictGet(reg, process_key)
                 outcome == IF Poll(ps, process) THEN wait ELSE "exits"
                 calls == StopCalls(outcome)
             IN  IF outcome = "exits"
                 THEN [ok |-> TRUE, msg |-> "stopped successfully", raised |-> FALSE,
                       calls |-> calls,
                       reg |-> DictDel(reg, process_key), procs |-> Exited(ps, process)]
                 ELSE IF outcome = "timeout"
                 THEN [ok |-> TRUE, msg |-> "force-killed", raised |-> FALSE,
                       calls |-> calls,
                       reg |-> DictDel(reg, process_key), procs |-> Exited(ps, process)]
                 ELSE IF outcome = "term_raises"
                 THEN [ok |-> FALSE, msg |-> "Error stopping script", raised |-> FALSE,
                       calls |-> calls, reg |-> reg, procs |-> ps]
                 ELSE \* kill() raises inside the TimeoutExpired handler: it propagates
                      [ok |-> FALSE, msg |-> None, raised |-> TRUE,
                       calls |-> calls, reg |-> reg, procs |-> ps]
        ELSE StopAbsent(reg, ps)

\* the registry holds a record of (user, script_name) whose child is running
Running(user, script_name) ==
    /\ DictHas(RUNNING_PROCESSES, ProcessKey(user, script_name))
    /\ Poll(procs, DictGet(RUNNING_PROCESSES, ProcessKey(user, script_name)))

\* button_callback, data "stop_<script_name>"
button_stop(user, script_name, wait) ==
    LET r == stop_script(RUNNING_PROCESSES, procs, user, script_name, wait)
    IN  /\ RUNNING_PROCESSES' = r.reg
        /\ procs' = Reap(r.procs, r.reg)
        /\ last' = Called("stop_script", user, script_name, None, r.ok,
                          IF r.raised THEN "raised" ELSE r.msg, r.calls)
        /\ UNCHANGED <<files, venv, reqFile, conv, upload_step, sess, logs, now, waiting>>

\* button_callback, data "delete_<file_name>"
button_delete(user, file_name) ==
    /\ files' = files \ {<<user, file_name>>}
    /\ UNCHANGED <<venv, reqFile, procs, RUNNING_PROCESSES, conv, upload_step, sess,
                   logs, now, last, waiting>>

(***************************************************************************)
(* Logs: logs_command and the logs_ branch of button_callback.             *)
(***************************************************************************)
DotPy == <<".", "p", "y">>

\* logs_dir.glob('*.log') in the user's logs directory
LogFilesOf(user) == {l \in logs : l.user = user}

\* log_file.name.split('_')[0] + '.py': the label of the button
LogLabel(name) == SplitFirst(name) \o DotPy

\* the keys of the dict "scripts"
LogLabels(user) == {LogLabel(l.name) : l \in LogFilesOf(user)}

\* the orders in which glob may list the files
Orderings(S) ==
    {f \in [1..Cardinality(S) -> S] : \A x \in S : \E i \in DOMAIN f : f[i] = x}

\* /logs: one button per label
logs_command(user) ==
    /\ IF LogFilesOf(user) = {}
       THEN last' = Called("logs_command", user, NoName, None, FALSE,
                           "No log files found.", <<>>)
       ELSE \E names \in Orderings(LogLabels(user)) :
               last' = Called("logs_command", user, NoName, None, TRUE, None, names)
    /\ UNCHANGED <<files, venv, reqFile, procs, RUNNING_PROCESSES, conv, upload_step,
                   sess, logs, now, waiting>>

\* logs_dir.glob(f"{stem}_*.log")
GlobMatches(user, stem) ==
    {l \in LogFilesOf(user) :
        /\ StartsWith(l.name, stem \o <<"_">>)
        /\ EndsWith(l.name, <<".", "l", "o", "g">>)
        /\ Len(l.name) >= Len(stem) + 5}

\* button_callback, data "logs_<script_name>", the button being one that
\* /logs shows: the file of the greatest st_mtime among those the pattern
\* finds, its name kept in the answer.  The mtime is that of the last
\* open(); what a child writes later is not followed.
button_logs(user, script_name) ==
    /\ script_name \in LogLabels(user)
    /\ LET log_files == GlobMatches(user, Replace(script_name, DotPy))
       IN  IF log_files # {}
           THEN \E latest_log \in {l \in log_files :
                                      \A o \in log_files : o.mtime <= l.mtime} :
                   last' = Called("view_logs", user, script_name, None, TRUE,
                                  "Latest log", <<latest_log.name>>)
           ELSE last' = Called("view_logs", user, script_name, None, FALSE,
                               "No logs found", <<>>)
    /\ UNCHANGED <<files, venv, reqFile, procs, RUNNING_PROCESSES, conv, upload_step,
                   sess, logs, now, waiting>>

\* a second passes
Tick ==
    /\ now < MaxClock
    /\ now' = now + 1
    /\ UNCHANGED <<files, venv, reqFile, procs, RUNNING_PROCESSES, conv, upload_step,
                   sess, logs, last, waiting>>

(***************************************************************************)
(* ScriptManager.install_requirements                                      *)
(***************************************************************************)
\* what "python -m venv" does when the directory is absent
VenvOutcomes == {"ok", "fail", "timeout"}
\* what "pip install -r" does
PipOutcomes == {"ok", "fail", "timeout"}

\* the manifest only noted, for an installation at some later time
install_requirements_Deferred(v, rq, requirements_content, mk, leaves, pip) ==
    [ok |-> TRUE, msg |-> "Requirements installed successfully!",
     venv |-> v, req |-> rq]

\* install_requirements on venv state v and requirements.txt content rq of
\* one user.  mk: the outcome of the venv creation; leaves: a failed or
\* timed-out creation leaves a partial directory behind; pip: the outcome
\* of pip.  A partial venv holds no bin/pip, so running it raises.
install_requirements(v, rq, requirements_content, mk, leaves, pip) ==
    IF v = "absent" /\ mk = "fail"
    THEN [ok |-> FALSE, msg |-> "Failed to create virtual environment",
          venv |-> IF leaves THEN "partial" ELSE "absent", req |-> rq]
    ELSE IF v = "absent" /\ mk = "timeout"
    THEN [ok |-> FALSE, msg |-> "Installation timed out",
          venv |-> IF leaves THEN "partial" ELSE "absent", req |-> rq]
    ELSE LET v1 == IF v = "absent" THEN "ready" ELSE v
         IN  IF v1 = "partial"
             THEN [ok |-> FALSE, msg |-> "Error during installation",
                   venv |-> v1, req |-> requirements_content]
             ELSE IF pip = "fail"
             THEN [ok |-> FALSE, msg |-> "Failed to install requirements",
                   venv |-> v1, req |-> requirements_content]
             ELSE IF pip = "timeout"
             THEN [ok |-> FALSE, msg |-> "Installation timed out",
                   venv |-> v1, req |-> requirements_content]
             ELSE [ok |-> TRUE, msg |-> "Requirements installed successfully!",
                   venv |-> v1, req |-> requirements_content]

\* The answers of the environment that make a difference when the venv
\* directory is in state v.
InstallEnvs(v) ==
    IF v = "absent"
    THEN [mk : {"ok"}, leaves : {FALSE}, pip : PipOutcomes]
         \cup [mk : {"fail", "timeout"}, leaves : BOOLEAN, pip : {"ok"}]
    ELSE IF v = "ready"
    THEN [mk : {"ok"}, leaves : {FALSE}, pip : PipOutcomes]
    ELSE [mk : {"ok"}, leaves : {FALSE}, pip : {"ok"}]

(***************************************************************************)
(* The /upload conversation (ConversationHandler, main()).                 *)
(***************************************************************************)
\* Whether a handler of the conversation state takes the message:
\* filters.Document.ALL | filters.TEXT takes every text, commands included;
\* filters.Document.ALL takes documents only.
StateHandlerMatches(state, m) ==
    \/ state \in {UPLOAD_REQUIREMENTS, UPLOAD_FILES}
    \/ state = UPLOAD_MAIN_SCRIPT /\ m.doc # NoName

\* The fallbacks are tried only when no handler of the state matched.
FallbackMatches(state, m) ==
    /\ state # END
    /\ ~StateHandlerMatches(state, m)
    /\ m.text = "/cancel"

\* /upload with no conversation running (the entry point).  The handler is
\* built without allow_reentry, so while a conversation runs the entry
\* point is not tried: /upload is a text like any other.
upload_start(user) ==
    /\ conv[user] = END
    /\ upload_step' = [upload_step EXCEPT ![user] = "requirements"]
    /\ conv' = [conv EXCEPT ![user] = UPLOAD_REQUIREMENTS]
    /\ sess' = [sess EXCEPT ![user] = NewSession]
    /\ last' = Called("upload_start", user, NoName, "/upload", TRUE, None, <<>>)
    /\ UNCHANGED <<files, venv, reqFile, procs, RUNNING_PROCESSES, logs, now, waiting>>

\* /skip taken as an empty manifest: the environment is provisioned
Skip_Provisions(v, rq) ==
    LET r == install_requirements(v, rq, "", "ok", FALSE, "ok")
    IN  [venv |-> r.venv, req |-> r.req]

\* handle_requirements on /skip: the venv and requirements.txt afterwards;
\* the branch calls nothing of ScriptManager
Skip(v, rq) == [venv |-> v, req |-> rq]

\* the messages install_requirements fails with
InstallFailures ==
    {"Failed to create virtual environment", "Installation timed out",
     "Failed to install requirements", "Error during installation"}

\* the conversation moving on whatever the installer returned
AfterInstall_Advance(success) == UPLOAD_FILES

\* handle_requirements, "if success: ... else: ...": the state returned
AfterInstall(success) ==
    IF success THEN UPLOAD_FILES ELSE UPLOAD_REQUIREMENTS

\* handle_requirements: /skip, a text that is not /skip, or a document
handle_requirements(user, m) ==
    /\ conv[user] = UPLOAD_REQUIREMENTS
    /\ StateHandlerMatches(conv[user], m)
    /\ IF m.text = "/skip"
       THEN /\ conv' = [conv EXCEPT ![user] = UPLOAD_FILES]
            /\ last' = Called("handle_requirements", user, NoName, m.text, TRUE, None, <<>>)
            /\ venv' = [venv EXCEPT ![user] = Skip(venv[user], reqFile[user]).venv]
            /\ reqFile' = [reqFile EXCEPT ![user] = Skip(venv[user], reqFile[user]).req]
            /\ UNCHANGED sess
       ELSE IF m.doc = NoName
       THEN /\ last' = Called("handle_requirements", user, NoName, m.text, FALSE,
                              "Please send a document file or /skip", <<>>)
            /\ UNCHANGED <<venv, reqFile, sess, conv>>
       ELSE \/ \* get_file, the download or decode('utf-8') raises
               /\ last' = Called("handle_requirements", user, m.doc, m.text, FALSE,
                                 "Error processing requirements", <<>>)
               /\ UNCHANGED <<venv, reqFile, sess, conv>>
            \/ \E content \in Manifests, e \in InstallEnvs(venv[user]) :
                 LET r == install_requirements(venv[user], reqFile[user], content,
                                               e.mk, e.leaves, e.pip)
                 IN  /\ sess[user].installs < MaxInstalls
                     /\ venv' = [venv EXCEPT ![user] = r.venv]
                     /\ reqFile' = [reqFile EXCEPT ![user] = r.req]
                     /\ sess' = [sess EXCEPT ![user].installs = @ + 1,
                                             ![user].manifest = IF r.ok THEN TRUE ELSE @]
                     /\ conv' = [conv EXCEPT ![user] = AfterInstall(r.ok)]
                     /\ last' = Called("handle_requirements", user, m.doc, m.text,
                                       r.ok, r.msg, <<>>)
    /\ UNCHANGED <<files, procs, RUNNING_PROCESSES, upload_step, logs, now, waiting>>

\* /done is refused until a file has been sent
AfterDone_NeedsFile(sent) ==
    IF sent = {} THEN UPLOAD_FILES ELSE UPLOAD_MAIN_SCRIPT

\* where /done leads: the handler looks at nothing but the text
AfterDone(sent) == UPLOAD_MAIN_SCRIPT

\* handle_files: /done, a text that is not /done, or a document.  Saving a
\* document evaluates user_id, a name the function never binds: the
\* NameError is caught by the handler's except clause.
handle_files(user, m) ==
    /\ conv[user] = UPLOAD_FILES
    /\ StateHandlerMatches(conv[user], m)
    /\ IF m.text = "/done"
       THEN /\ conv' = [conv EXCEPT ![user] = AfterDone(sess[user].sent)]
            /\ last' = Called("handle_files", user, NoName, m.text, TRUE, None, <<>>)
            /\ UNCHANGED sess
       ELSE IF m.doc = NoName
       THEN /\ last' = Called("handle_files", user, NoName, m.text, FALSE,
                              "Please send a document file or /done when finished", <<>>)
            /\ UNCHANGED <<conv, sess>>
       ELSE /\ sess' = [sess EXCEPT ![user].sent = @ \cup {m.doc}]
            /\ last' = Called("handle_files", user, m.doc, m.text, FALSE,
                              "Error saving file", <<>>)
            /\ UNCHANGED conv
    /\ UNCHANGED <<files, venv, reqFile, procs, RUNNING_PROCESSES, upload_step,
                   logs, now, waiting>>

\* the download reported as saved without the file being written
SaveFile_Lost(fs, user, file_name) == fs

\* file.download_to_drive(scripts_dir / file_name): a file of that name is
\* replaced
SaveFile(fs, user, file_name) == fs \cup {<<user, file_name>>}

\* handle_main_script: the entry-point document
handle_main_script(user, m) ==
    /\ conv[user] = UPLOAD_MAIN_SCRIPT
    /\ StateHandlerMatches(conv[user], m)
    /\ \E dlOk \in BOOLEAN :
        IF dlOk
        THEN /\ files' = SaveFile(files, user, m.doc)
             /\ conv' = [conv EXCEPT ![user] = END]
             /\ sess' = [sess EXCEPT ![user].outcome = "completed"]
             /\ last' = Called("handle_main_script", user, m.doc, m.text, TRUE,
                               "uploaded", <<>>)
        ELSE /\ last' = Called("handle_main_script", user, m.doc, m.text, FALSE,
                               "Error saving script", <<>>)
             /\ UNCHANGED <<files, conv, sess>>
    /\ UNCHANGED <<venv, reqFile, procs, RUNNING_PROCESSES, upload_step, logs, now, waiting>>

\* cancel_upload: the fallback for /cancel
cancel_upload(user, m) ==
    /\ FallbackMatches(conv[user], m)
    /\ conv' = [conv EXCEPT ![user] = END]
    /\ sess' = [sess EXCEPT ![user].outcome = "cancelled"]
    /\ last' = Called("cancel_upload", user, NoName, m.text, TRUE,
                      "Upload process cancelled.", <<>>)
    /\ UNCHANGED <<files, venv, reqFile, procs, RUNNING_PROCESSES, upload_step,
                   logs, now, waiting>>

\* handle_document_upload: a document that the conversation handler does
\* not take, that is, with no conversation running
handle_document_upload(user, m) ==
    /\ conv[user] = END
    /\ m.doc # NoName
    /\ \E dlOk \in BOOLEAN :
        LET saved == upload_step[user] = None /\ dlOk
        IN  files' = IF saved THEN SaveFile(files, user, m.doc) ELSE files
    /\ UNCHANGED <<venv, reqFile, procs, RUNNING_PROCESSES, conv, upload_step, sess,
                   logs, now, last, waiting>>

(***************************************************************************)
(* The system.                                                             *)
(***************************************************************************)
\* The registry, the scripts directory and the children: every command a
\* user gives outside the /upload conversation.
Lifecycle ==
    \/ \E u \in Users : \E s \in NamesOf(u) : button_run(u, s)
    \/ \E u \in Users : \E s \in NamesOf(u) :
          \E w \in (IF Running(u, s) THEN WaitOutcomes ELSE {"exits"}) : button_stop(u, s, w)
    \/ \E u \in Users : stop_command(u)
    \/ \E u \in Users : \E s \in NamesOf(u) : button_delete(u, s)
    \/ \E u \in Users : \E m \in {d \in Documents : d.doc \in NamesOf(u)} :
          handle_document_upload(u, m)
    \/ \E pid \in 1..Len(procs) : ChildExit(pid)

Next == Lifecycle

Spec == Init /\ [][Next]_vars

\* The same with a terminate() or kill() that may raise.
NextFault ==
    \/ Lifecycle
    \/ \E u \in Users, s \in Names, w \in SignalFaults : button_stop(u, s, w)

SpecFault == Init /\ [][NextFault]_vars

\* The /upload conversation of one user, with what the user can do once a
\* session has ended: run a script, send a document outside the conversation.
Upload ==
    \/ \E u \in Uploaders : upload_start(u)
    \/ \E u \in Uploaders, m \in Messages : handle_requirements(u, m)
    \/ \E u \in Uploaders, m \in Messages : handle_files(u, m)
    \/ \E u \in Uploaders, m \in Documents : handle_main_script(u, m)
    \/ \E u \in Uploaders, m \in Commands : cancel_upload(u, m)

NextUpload ==
    \/ Upload
    \/ \E u \in Uploaders, s \in Names : \E env \in RunEnvs(u, s) :
          button_run_in(u, s, FreshVenv(venv[u]), env)
    \/ \E u \in Uploaders, m \in Documents : handle_document_upload(u, m)

SpecUpload == Init /\ [][NextUpload]_vars

\* Provisioning a venv and starting scripts, whatever the venv directory
\* then holds.
NextRun ==
    \/ \E u \in Uploaders : upload_start(u)
    \/ \E u \in Uploaders, m \in Messages : handle_requirements(u, m)
    \/ \E u \in Uploaders, m \in Documents : handle_document_upload(u, m)
    \/ \E u \in Uploaders, s \in Names : button_run(u, s)
    \/ \E pid \in 1..Len(procs) : ChildExit(pid)

SpecRun == Init /\ [][NextRun]_vars

\* Running scripts over time and looking at their logs.
NextLogs ==
    \/ \E u \in Users : \E s \in NamesOf(u) : button_run(u, s)
    \/ \E u \in Users : \E m \in {d \in Documents : d.doc \in NamesOf(u)} :
          handle_document_upload(u, m)
    \/ \E pid \in 1..Len(procs) : ChildExit(pid)
    \/ \E u \in Users : logs_command(u)
    \/ \E u \in Users : \E s \in LogLabels(u) : button_logs(u, s)
    \/ Tick

SpecLogs == Init /\ [][NextLogs]_vars

(***************************************************************************)
(* The stop of a running script, with its wait as a step of its own.       *)
(***************************************************************************)
\* a wait that gives the event loop to the other handlers, as an awaited one
LoopFree_Yielding(w) == TRUE

\* The handlers are coroutines of one asyncio event loop.  stop_script is a
\* plain function called by button_callback, and process.wait(timeout=10) is
\* a blocking call made on the loop's thread: while it lasts no other update
\* is dispatched.
LoopFree(w) == w = Idle

\* stop_script up to the wait: the key is looked up, terminate() is called
\* and wait(timeout=10) is entered.
stop_begin(user, script_name) ==
    /\ Running(user, script_name)
    /\ waiting' = [user |-> user, script |-> script_name,
                   process |-> DictGet(RUNNING_PROCESSES, ProcessKey(user, script_name))]
    /\ UNCHANGED <<files, venv, reqFile, procs, RUNNING_PROCESSES, conv, upload_step,
                   sess, logs, now, last>>

\* stop_script from the return of the wait: the child has exited, or the
\* wait timed out and kill() is called; the key is deleted and the caller
\* is answered.
stop_end(wait) ==
    /\ waiting # Idle
    /\ wait = "timeout" => Poll(procs, waiting.process)
    /\ RUNNING_PROCESSES' =
           DictDel(RUNNING_PROCESSES, ProcessKey(waiting.user, waiting.script))
    /\ procs' = Reap(Exited(procs, waiting.process), RUNNING_PROCESSES')
    /\ last' = Called("stop_script", waiting.user, waiting.script, None, TRUE,
                      IF wait = "exits" THEN "stopped successfully" ELSE "force-killed",
                      StopCalls(wait))
    /\ waiting' = Idle
    /\ UNCHANGED <<files, venv, reqFile, conv, upload_step, sess, logs, now>>

\* An update whose handler starts a script.
run_dispatched(user, script_name) ==
    LoopFree(waiting) /\ button_run(user, script_name)

\* An update whose handler stops a script: the stop of a running script
\* enters the wait, any other stop returns at once.
stop_dispatched(user, script_name) ==
    /\ LoopFree(waiting)
    /\ IF Running(user, script_name)
       THEN stop_begin(user, script_name)
       ELSE button_stop(user, script_name, "exits")

\* An update whose handler lists the running scripts.
list_dispatched(user) ==
    LoopFree(waiting) /\ stop_command(user)

\* An update with a document, outside the conversation.
document_dispatched(user, m) ==
    LoopFree(waiting) /\ handle_document_upload(user, m)

NextWait ==
    \/ \E u \in Users : \E s \in NamesOf(u) : run_dispatched(u, s)
    \/ \E u \in Users : \E s \in NamesOf(u) : stop_dispatched(u, s)
    \/ \E u \in Users : list_dispatched(u)
    \/ \E u \in Users : \E m \in {d \in Documents : d.doc \in NamesOf(u)} :
          document_dispatched(u, m)
    \/ \E w \in WaitOutcomes : stop_end(w)
    \/ \E pid \in 1..Len(procs) : ChildExit(pid)

SpecWait == Init /\ [][NextWait]_vars

(***************************************************************************)
(* Properties of the registry.                                             *)
(***************************************************************************)
\* the children of (user, script_name) that are running
LiveChildren(user, script_name) ==
    {pid \in 1..Len(procs) :
        /\ procs[pid].alive
        /\ procs[pid].user = user
        /\ procs[pid].script = script_name}

\* the results of stop_script
Stopped == "stopped successfully"
ForceKilled == "force-killed"
NotRunning == "Script not running or not found"

\* The elements of a sequence.
Range(seq) == {seq[i] : i \in 1..Len(seq)}

\* C1: a start for a key whose registered child is still running fails: it
\* spawns no child and leaves the registry as it was.
C1_StartOnLiveKeyFails ==
    [][\A u \in Users, s \in Names :
          (Running(u, s) /\ button_run(u, s))
              => /\ ~last'.ok
                 /\ procs' = procs
                 /\ RUNNING_PROCESSES' = RUNNING_PROCESSES]_vars

\* C2: at most one child spawned for a (user, script) key is running.
C2_OneLiveChildPerKey ==
    \A u \in Users, s \in Names : Cardinality(LiveChildren(u, s)) <= 1

\* C3: get_running_scripts(u) returns no script name of u whose registered
\* child had exited when the call polled it.
C3_ListedNamesAreLive ==
    [][\A u \in Users :
          stop_command(u)
              => \A n \in Range(last'.names) :
                    ~(/\ DictHas(RUNNING_PROCESSES, ProcessKey(u, n))
                      /\ ~Poll(procs, DictGet(RUNNING_PROCESSES, ProcessKey(u, n))))]_vars

\* C4: when stop_script(u, s) has returned Stopped or ForceKilled, the key of
\* (u, s) is not in the registry and a get_running_scripts(u) made before
\* any other start does not list s.
C4_StoppedKeyNotListed ==
    (last.op = "stop_script" /\ last.msg \in {Stopped, ForceKilled})
        => /\ ~DictHas(RUNNING_PROCESSES, ProcessKey(last.user, last.script))
           /\ last.script \notin
                  Range(get_running_scripts(RUNNING_PROCESSES, procs, last.user).running)

\* C5: stop_script on a registered key returns Stopped or ForceKilled, and a
\* second stop_script of the same key right after it returns NotRunning.
C5_StopTwice ==
    /\ \A u \in Users, s \in Names, w \in WaitOutcomes :
          DictHas(RUNNING_PROCESSES, ProcessKey(u, s))
              => stop_script(RUNNING_PROCESSES, procs, u, s, w).msg \in {Stopped, ForceKilled}
    /\ (last.op = "stop_script" /\ last.msg \in {Stopped, ForceKilled})
          => \A w \in WaitOutcomes :
                stop_script(RUNNING_PROCESSES, procs, last.user, last.script, w).msg
                    = NotRunning

\* a stop has force-killed a child while another child is still running
C5_Witness ==
    /\ last.op = "stop_script"
    /\ last.msg = ForceKilled
    /\ \E pid \in 1..Len(procs) : procs[pid].alive

\* C6: stop_script for a key that is not in the registry returns NotRunning
\* and changes nothing: no child is signalled, the registry is as it was.
C6_StopAbsentKey ==
    [][\A u \in Users, s \in Names, w \in WaitOutcomes :
          (/\ last'.op = "stop_script"
           /\ last'.user = u
           /\ last'.script = s
           /\ ~DictHas(RUNNING_PROCESSES, ProcessKey(u, s))
           /\ button_stop(u, s, w))
              => /\ last'.msg = NotRunning
                 /\ ~last'.ok
                 /\ UNCHANGED <<files, venv, reqFile, procs, RUNNING_PROCESSES,
                                conv, upload_step, sess, logs, now, waiting>>]_vars

\* a stop has answered NotRunning while the registry holds a running child
C6_Witness ==
    /\ last.op = "stop_script"
    /\ last.msg = NotRunning
    /\ \E i \in 1..Len(RUNNING_PROCESSES) : Poll(procs, RUNNING_PROCESSES[i].proc)

\* C7: a run_script that fails (no such file, no interpreter,
\* Popen() raising) spawns no child and leaves the registry as it was; a
\* run_script for a file that is not in the scripts directory fails.
C7_FailedStartLeavesNothing ==
    [][\A u \in Users, s \in Names :
          (/\ last'.op = "run_script"
           /\ last'.user = u
           /\ last'.script = s
           /\ button_run(u, s))
              => /\ <<u, s>> \notin files => ~last'.ok
                 /\ ~last'.ok => /\ procs' = procs
                                 /\ RUNNING_PROCESSES' = RUNNING_PROCESSES]_vars

\* a start has failed in the spawn while the registry holds a running child
\* under the same key
C7_Witness ==
    /\ last.op = "run_script"
    /\ last.msg = "Error running script"
    /\ Running(last.user, last.script)

(***************************************************************************)
(* Properties of the /upload conversation.                                 *)
(***************************************************************************)
\* the message /cancel
CancelMessage == [text |-> "/cancel", doc |-> NoName]

\* The conversation handler hands the message to a handler of the state or
\* to the fallback.
Dispatched(user, m) ==
    \/ handle_requirements(user, m)
    \/ handle_files(user, m)
    \/ handle_main_script(user, m)
    \/ cancel_upload(user, m)

\* C8: a session with a manifest, app.py sent as a project file, /done and
\* app.py as the entry point has run the installer once and has started
\* app.py once, and get_running_scripts right after it returns [app.py].
C8_ScenarioA ==
    \A u \in Uploaders :
        (/\ last.op = "handle_main_script"
         /\ last.user = u
         /\ last.ok
         /\ last.script = ScriptApp
         /\ sess[u].outcome = "completed"
         /\ sess[u].manifest
         /\ sess[u].sent = {ScriptApp})
            => /\ sess[u].installs = 1
               /\ Cardinality(LiveChildren(u, ScriptApp)) = 1
               /\ get_running_scripts(RUNNING_PROCESSES, procs, u).running = <<ScriptApp>>

\* C8, as the code has it: the installer runs when the manifest is sent,
\* not when the entry point is; sending the entry point saves it in the
\* user's scripts directory, ends the conversation and starts nothing: no
\* child is spawned and the registry is as it was.
C8_UploadStartsNothing ==
    [][\A u \in Uploaders, m \in Documents :
          (handle_main_script(u, m) /\ last'.ok)
              => /\ <<u, m.doc>> \in files'
                 /\ conv'[u] = END
                 /\ procs' = procs
                 /\ RUNNING_PROCESSES' = RUNNING_PROCESSES
                 /\ venv' = venv
                 /\ reqFile' = reqFile
                 /\ sess[u].manifest
                       => /\ sess[u].installs >= 1
                          /\ venv[u] = "ready"
                          /\ reqFile[u] \in Manifests]_vars

\* the session of C8 has ended: one installer run, app.py saved, nothing
\* running
C8_Witness ==
    \E u \in Uploaders :
        /\ last.op = "handle_main_script"
        /\ last.user = u
        /\ last.ok
        /\ last.script = ScriptApp
        /\ sess[u].outcome = "completed"
        /\ sess[u].manifest
        /\ sess[u].sent = {ScriptApp}
        /\ sess[u].installs = 1
        /\ <<u, ScriptApp>> \in files
        /\ get_running_scripts(RUNNING_PROCESSES, procs, u).running = <<>>

\* C9: /cancel sent in any of the three states ends the conversation as
\* cancelled and removes no file.
C9_CancelInAnyState ==
    [][\A u \in Uploaders :
          (conv[u] # END /\ Dispatched(u, CancelMessage))
              => /\ conv'[u] = END
                 /\ sess'[u].outcome = "cancelled"
                 /\ files' = files]_vars

\* C10: a document sent in UPLOAD_FILES is saved under its file name in the
\* sender's scripts directory, and the conversation stays in UPLOAD_FILES.
C10_FilesArePersisted ==
    [][\A u \in Uploaders, m \in Documents :
          (conv[u] = UPLOAD_FILES /\ handle_files(u, m))
              => /\ <<u, m.doc>> \in files'
                 /\ conv'[u] = UPLOAD_FILES]_vars

\* the message /done
DoneMessage == [text |-> "/done", doc |-> NoName]

\* C11, as the spec has it: /done leads to UPLOAD_MAIN_SCRIPT only if a
\* file was sent in this session; with none sent the state stays
\* UPLOAD_FILES.
C11_DoneNeedsAFile ==
    [][\A u \in Uploaders :
          handle_files(u, DoneMessage)
              => conv'[u] = IF sess[u].sent = {} THEN UPLOAD_FILES
                            ELSE UPLOAD_MAIN_SCRIPT]_vars

\* C11, as the code has it: /done in UPLOAD_FILES always leads to
\* UPLOAD_MAIN_SCRIPT, however many files were sent, none included (the
\* main script is sent in a step of its own).
C11_DoneAlwaysAdvances ==
    [][\A u \in Uploaders :
          handle_files(u, DoneMessage)
              => /\ conv'[u] = UPLOAD_MAIN_SCRIPT
                 /\ sess'[u] = sess[u]
                 /\ files' = files]_vars

\* /done has been accepted in a session in which no file was sent
C11_Witness ==
    \E u \in Uploaders :
        /\ last.op = "handle_files"
        /\ last.user = u
        /\ last.text = "/done"
        /\ sess[u].sent = {}
        /\ conv[u] = UPLOAD_MAIN_SCRIPT

\* the calls of the conversation's handlers
ConversationOps ==
    {"upload_start", "handle_requirements", "handle_files", "handle_main_script",
     "cancel_upload"}

\* handle_requirements has run the installer on a document and it failed
InstallFailed(u, m) ==
    /\ handle_requirements(u, m)
    /\ last'.msg \in InstallFailures

\* C12, as the spec has it: a failing installer ends the session, and no
\* process is started.
C12_InstallFailureEndsSession ==
    [][\A u \in Uploaders, m \in Documents :
          InstallFailed(u, m)
              => /\ conv'[u] = END
                 /\ procs' = procs]_vars

\* C12, as the code has it: a failing installer is reported and the
\* session stays in UPLOAD_REQUIREMENTS, where the manifest can be sent
\* again or skipped; no handler of the conversation starts a process.
C12_InstallFailureReprompts ==
    [][/\ \A u \in Uploaders, m \in Documents :
            InstallFailed(u, m)
                => /\ ~last'.ok
                   /\ conv'[u] = UPLOAD_REQUIREMENTS
                   /\ sess'[u].outcome = "active"
                   /\ sess'[u].manifest = sess[u].manifest
       /\ (last' # last /\ last'.op \in ConversationOps)
            => /\ procs' = procs
               /\ RUNNING_PROCESSES' = RUNNING_PROCESSES]_vars

\* pip has failed in a session that is still waiting for the manifest
C12_Witness ==
    \E u \in Uploaders :
        /\ last.op = "handle_requirements"
        /\ last.user = u
        /\ last.msg = "Failed to install requirements"
        /\ conv[u] = UPLOAD_REQUIREMENTS
        /\ venv[u] = "ready"

\* handle_requirements has got the content of a manifest document
ManifestSubmitted(u, m) ==
    /\ handle_requirements(u, m)
    /\ last'.msg # "Error processing requirements"

\* C13, as the spec has it: a submitted manifest always leads to
\* UPLOAD_FILES, and the installer does not run at that time.
C13_InstallDeferred ==
    [][\A u \in Uploaders, m \in Documents :
          ManifestSubmitted(u, m)
              => /\ conv'[u] = UPLOAD_FILES
                 /\ venv' = venv
                 /\ reqFile' = reqFile]_vars

\* C13, as the code has it: the installer runs when the manifest is
\* submitted; the session moves to UPLOAD_FILES exactly when it succeeded,
\* then with the venv built and the manifest written, and stays in
\* UPLOAD_REQUIREMENTS otherwise; sending the entry point installs nothing.
C13_InstallAtSubmission ==
    [][\A u \in Uploaders, m \in Documents :
          /\ ManifestSubmitted(u, m)
                => /\ sess'[u].installs = sess[u].installs + 1
                   /\ conv'[u] = (IF last'.ok THEN UPLOAD_FILES
                                  ELSE UPLOAD_REQUIREMENTS)
                   /\ last'.ok => /\ venv'[u] = "ready"
                                  /\ reqFile'[u] \in Manifests
                                  /\ sess'[u].manifest
          /\ handle_main_script(u, m)
                => /\ venv' = venv
                   /\ reqFile' = reqFile
                   /\ sess'[u].installs = sess[u].installs]_vars

\* a manifest has been installed and the session waits for files
C13_Witness ==
    \E u \in Uploaders :
        /\ last.op = "handle_requirements"
        /\ last.user = u
        /\ last.ok
        /\ last.script # NoName
        /\ conv[u] = UPLOAD_FILES
        /\ venv[u] = "ready"
        /\ reqFile[u] \in Manifests

\* the message /upload
UploadMessage == [text |-> "/upload", doc |-> NoName]

\* C14: /upload sent while the user's session is in a non-terminal state
\* discards that session and opens a fresh one in UPLOAD_REQUIREMENTS.
C14_UploadRestartsSession ==
    [][\A u \in Uploaders :
          (conv[u] # END /\ Dispatched(u, UploadMessage))
              => /\ conv'[u] = UPLOAD_REQUIREMENTS
                 /\ sess'[u] = NewSession]_vars

\* the message /skip
SkipMessage == [text |-> "/skip", doc |-> NoName]

C16_FailedInstallTouchesNothing ==
    [][\A u \in Uploaders, m \in Documents :
          InstallFailed(u, m)
              => /\ (venv'[u] = "absent") = (venv[u] = "absent")
                 /\ reqFile'[u] = reqFile[u]]_vars

(***************************************************************************)
(* Properties of names, logs and directories.                              *)
(***************************************************************************)
\* C18: every name that get_running_scripts(u) returns is a script name
\* under which u has a registered process: a stop_script(u, n) made right
\* after finds the key and does not answer NotRunning.
C18_ListedNamesCanBeStopped ==
    [][\A u \in Users :
          stop_command(u)
              => \A n \in Range(last'.names) :
                    /\ DictHas(RUNNING_PROCESSES', ProcessKey(u, n))
                    /\ \A w \in WaitOutcomes :
                          stop_script(RUNNING_PROCESSES', procs', u, n, w).msg
                              # NotRunning]_vars

\* the label /logs shows for the logs of script_name
LabelFor(script_name) == LogLabel(LogName(script_name, 0))

\* C17: for a script that the user has started, the button that /logs
\* shows for its logs finds a log written by a run of that script, the
\* most recent one.
C17_LogsOfStartedScriptFound ==
    [][\A u \in Users, s \in Names :
          (/\ LiveChildren(u, s) # {}
           /\ last'.op = "view_logs"
           /\ button_logs(u, LabelFor(s)))
              => /\ last'.ok
                 /\ \E l \in LogFilesOf(u) :
                       /\ l.name = last'.names[1]
                       /\ l.script = s
                       /\ \A o \in LogFilesOf(u) :
                             o.script = s => o.mtime <= l.mtime]_vars

\* C19: a start that succeeds opens one log file for the run, and when
\* the call before it was a successful start of the same script by the same
\* user, whose process has exited since, that file is not the log of that
\* earlier run.
C19_OneNewLogPerRun ==
    [][\A u \in Users, s \in Names :
          (/\ last'.op = "run_script"
           /\ last'.ok
           /\ button_run(u, s))
              => /\ \E l \in logs' :
                       /\ l.user = u /\ l.script = s /\ l.mtime = now
                       /\ logs' \ {l} \subseteq logs
                 /\ (/\ last.op = "run_script" /\ last.ok
                     /\ last.user = u /\ last.script = s
                     /\ ~Running(u, s))
                       => ~\E l \in logs : l.user = u /\ l.name = LogName(s, now)]_vars

\* user ids the directories are resolved for: some are prefixes of others
\* as text
UserIds == {1, 2, 12, 21, 112}

\* path p is q or lies under q
Under(p, q) ==
    /\ Len(q) <= Len(p)
    /\ \A i \in 1..Len(q) : p[i] = q[i]

\* the directories UserManager resolves for a user
Workspace(user_id) ==
    {get_user_dir(user_id), get_user_venv_dir(user_id),
     get_user_scripts_dir(user_id), get_user_logs_dir(user_id)}

\* the paths of the scripts and logs a user has in this state
PathsOf(user_id) ==
    {get_user_scripts_dir(user_id) \o <<f[2]>> : f \in {g \in files : g[1] = user_id}}
        \cup {get_user_logs_dir(user_id) \o <<l.name>> : l \in LogFilesOf(user_id)}

\* C20: the directories resolved for two different users, and the files
\* the two users have in them, are disjoint subtrees: no path of one is a
\* path of the other or lies under one.
C20_WorkspacesDisjoint ==
    /\ \A u1 \in UserIds : \A u2 \in UserIds \ {u1} :
          \A p \in Workspace(u1), q \in Workspace(u2) :
              ~Under(p, q) /\ ~Under(q, p)
    /\ \A u1 \in Users : \A u2 \in Users \ {u1} :
          \A p \in PathsOf(u1), q \in Workspace(u2) \cup PathsOf(u2) :
              ~Under(p, q) /\ ~Under(q, p)

\* two users have a script of the same name and a log of the same name
C20_Witness ==
    \E u1 \in Users : \E u2 \in Users \ {u1} :
        /\ <<u1, ScriptApp>> \in files
        /\ <<u2, ScriptApp>> \in files
        /\ \E l1 \in LogFilesOf(u1), l2 \in LogFilesOf(u2) : l1.name = l2.name

(***************************************************************************)
(* Stopping a child whose signals can fail.                                *)
(***************************************************************************)
\* C21: when the wait times out and the kill() that follows fails, the
\* stop answers its caller with a result (success false, with a message),
\* and the answer is neither "stopped" nor "force-killed".
C21_KillFailureIsAResult ==
    [][\A u \in Users : \A s \in NamesOf(u) :
          (Running(u, s) /\ button_stop(u, s, "kill_raises"))
              => /\ ~last'.ok
                 /\ last'.msg \notin {"raised", None}
                 /\ last'.msg \notin {Stopped, ForceKilled}]_vars

(***************************************************************************)
(* The order of the signals of a stop.                                     *)
(***************************************************************************)
\* C22: a stop of a registered script calls terminate() first; it calls
\* kill() only after a wait() that ended without the child having exited;
\* it answers "stopped" when the child exited within the wait and
\* "force-killed" otherwise.
C22_TerminateThenKillAfterGrace ==
    [][\A u \in Users : \A s \in NamesOf(u) : \A w \in WaitOutcomes :
          (/\ DictHas(RUNNING_PROCESSES, ProcessKey(u, s))
           /\ button_stop(u, s, w))
              => LET calls == last'.names
                     exitedInGrace == ~Running(u, s) \/ w = "exits"
                 IN  /\ Len(calls) >= 1
                     /\ calls[1] = "terminate"
                     /\ \A i \in 1..Len(calls) :
                           calls[i] = "kill"
                               => i > 2 /\ calls[i - 1] = "wait" /\ ~exitedInGrace
                     /\ ~exitedInGrace => "kill" \in Range(calls)
                     /\ last'.msg = IF exitedInGrace THEN Stopped ELSE ForceKilled]_vars

\* a stop has escalated to kill() after the wait timed out
C22_Witness ==
    /\ last.op = "stop_script"
    /\ last.msg = ForceKilled
    /\ last.names = <<"terminate", "wait", "kill">>

(***************************************************************************)
(* Handlers and the event loop.                                            *)
(***************************************************************************)
\* the script a stop is waiting for
WaitingKey == <<waiting.user, waiting.script>>

\* C23: while a stop is inside its wait, a start, a stop and a list for any
\* other key can be dispatched.
C23_OtherKeysNotBlocked ==
    waiting # Idle
        => \A u \in Users : \A s \in NamesOf(u) :
              <<u, s>> # WaitingKey
                  => /\ ENABLED list_dispatched(u)
                     /\ ENABLED stop_dispatched(u, s)
                     /\ Len(procs) < MaxProcs => ENABLED run_dispatched(u, s)

\* C24: while the lookup-terminate-delete of a stop is in progress the only
\* step that changes the registry is its own delete, of the entry it looked
\* up; the insert of a start and the poll-delete of a list are single steps.
C24_RegistryStepsNotInterleaved ==
    [][waiting # Idle
          => \/ RUNNING_PROCESSES' = RUNNING_PROCESSES
             \/ /\ waiting' = Idle
                /\ DictHas(RUNNING_PROCESSES, ProcessKey(waiting.user, waiting.script))
                /\ DictGet(RUNNING_PROCESSES, ProcessKey(waiting.user, waiting.script))
                      = waiting.process
                /\ RUNNING_PROCESSES' =
                      DictDel(RUNNING_PROCESSES,
                              ProcessKey(waiting.user, waiting.script))]_vars

\* a stop is inside its wait while another script is registered
C24_Witness ==
    /\ waiting # Idle
    /\ \E i \in 1..Len(RUNNING_PROCESSES) :
          RUNNING_PROCESSES[i].key # ProcessKey(waiting.user, waiting.script)

(***************************************************************************)
(* Who writes a log file.                                                  *)
(***************************************************************************)
\* the running children whose output goes to the log file `name` of user
WritersOf(user, name) ==
    {pid \in 1..Len(procs) :
        /\ procs[pid].alive
        /\ procs[pid].user = user
        /\ procs[pid].log = name}

\* C25: no log file is the output of two running children at once, and no
\* start opens for writing (truncates) the log file of a running child.
C25_LogsSingleWriter ==
    /\ [](\A l \in logs : Cardinality(WritersOf(l.user, l.name)) <= 1)
    /\ [][\A u \in Users : \A s \in NamesOf(u) :
             (button_run(u, s) /\ last'.msg \in {"started", "Error running script"})
                 => WritersOf(u, LogName(s, now)) = {}]_vars

(***************************************************************************)
(* The interpreter of a start.                                             *)
(***************************************************************************)
\* C26: a start that succeeds spawns the child with an interpreter of the
\* user's venv if and only if the venv directory exists and a candidate in
\* it passes the probe, and then with a candidate that passes; otherwise
\* with sys.executable; the source named in the answer is the one spawned.
C26_InterpreterChoice ==
    [][\A u \in Uploaders, s \in Names :
          \A cands \in CandidateSets(venv[u]), env \in RunOutcomes :
              (/\ last'.op = "run_script"
               /\ last'.ok
               /\ last'.user = u
               /\ last'.script = s
               /\ button_run_in(u, s, cands, env))
                  => LET python_path == last'.names[1]
                         venv_dir == get_user_venv_dir(u)
                         passing == {i \in 1..Len(cands) : cands[i] = "works"}
                         fromVenv ==
                             \E i \in 1..Len(venv_python_candidates) :
                                 python_path = venv_dir \o venv_python_candidates[i]
                     IN  /\ fromVenv <=> (venv[u] # "absent" /\ passing # {})
                         /\ fromVenv
                               => \E i \in passing :
                                     python_path = venv_dir \o venv_python_candidates[i]
                         /\ ~fromVenv => python_path = sys_executable
                         /\ last'.text = IF fromVenv THEN "virtual environment"
                                                     ELSE "system"]_vars

\* a script was started with an interpreter of the user's venv, the first
\* candidate having failed the probe
C26_Witness ==
    /\ last.op = "run_script"
    /\ last.ok
    /\ last.text = "virtual environment"
    /\ last.names = <<get_user_venv_dir(last.user) \o <<"bin", "python3">>>>

(***************************************************************************)
(* Children and the registry.                                              *)
(***************************************************************************)
\* C27: every child that is running is the process of the registry record
\* under the key of its user and script.
C27_LiveChildrenAreTracked ==
    \A pid \in 1..Len(procs) :
        procs[pid].alive
            => /\ DictHas(RUNNING_PROCESSES,
                          ProcessKey(procs[pid].user, procs[pid].script))
               /\ DictGet(RUNNING_PROCESSES,
                          ProcessKey(procs[pid].user, procs[pid].script)) = pid

(***************************************************************************)
(* Documents sent after an upload session.                                 *)
(***************************************************************************)
\* C28: once a user's upload session has been completed or cancelled, a
\* document the user sends outside a session can be saved: a step of
\* handle_document_upload puts a file of its name in the scripts directory.
C28_ReplacementAfterSession ==
    \A u \in Uploaders, m \in Documents :
        (/\ sess[u].outcome \in {"completed", "cancelled"}
         /\ conv[u] = END
         /\ <<u, m.doc>> \notin files)
            => ENABLED (handle_document_upload(u, m) /\ <<u, m.doc>> \in files')

(***************************************************************************)
(* The registry records of different users.                                *)
(***************************************************************************)
\* the registry records that were not started by user
NotStartedBy(reg, user) ==
    SelectSeq(reg, LAMBDA e : procs[e.proc].user # user)

\* the registry records other than the one user started under script_name
NotTheRecordOf(reg, user, script_name) ==
    SelectSeq(reg, LAMBDA e : ~(procs[e.proc].user = user
                                /\ procs[e.proc].script = script_name))

\* different (user, script) pairs have different keys, and the prefix of a
\* user is the start of the keys of that user only
KeysSeparateUsers ==
    \A u1 \in UserIds, u2 \in UserIds : \A s1 \in Names, s2 \in Names :
        /\ ProcessKey(u1, s1) = ProcessKey(u2, s2) => (u1 = u2 /\ s1 = s2)
        /\ StartsWith(ProcessKey(u2, s2), UserPrefix(u1)) => u1 = u2

\* C29: different (user, script) pairs have different keys and the prefix
\* of a user matches the keys of that user only; a list made for a user
\* leaves the records and the children of other users as they are and
\* returns names of that user's records only; a stop made for a user and a
\* script leaves every other record and child as it is.
C29_RegistryIsolation ==
    /\ []KeysSeparateUsers
    /\ [][\A u \in Users :
             /\ (/\ last'.op = "get_running_scripts"
                 /\ last'.user = u
                 /\ stop_command(u))
                   => /\ NotStartedBy(RUNNING_PROCESSES', u)
                            = NotStartedBy(RUNNING_PROCESSES, u)
                      /\ \A pid \in 1..Len(procs) :
                            procs[pid].user # u => procs'[pid] = procs[pid]
                      /\ \A n \in Range(last'.names) :
                            \E e \in Range(RUNNING_PROCESSES) :
                                /\ procs[e.proc].user = u
                                /\ n = ScriptNameOf(e.key, UserPrefix(u))
             /\ \A s \in NamesOf(u), w \in WaitOutcomes :
                   (/\ last'.op = "stop_script"
                    /\ last'.user = u
                    /\ last'.script = s
                    /\ button_stop(u, s, w))
                       => /\ NotTheRecordOf(RUNNING_PROCESSES', u, s)
                                = NotTheRecordOf(RUNNING_PROCESSES, u, s)
                          /\ \A pid \in 1..Len(procs) :
                                ~(procs[pid].user = u /\ procs[pid].script = s)
                                    => procs'[pid] = procs[pid]]_vars

\* a user has listed their scripts while the registry holds a record of
\* another user whose child has exited
C29_Witness ==
    /\ last.op = "get_running_scripts"
    /\ \E e \in Range(RUNNING_PROCESSES) :
          /\ procs[e.proc].user # last.user
          /\ ~procs[e.proc].alive

(***************************************************************************)
(* Installing again after a venv creation that failed.                     *)
(***************************************************************************)
\* C30: when a failed or timed-out creation has left a partial venv
\* directory, a user who is again asked for a requirements file can send
\* one and have it installed: some step of handle_requirements succeeds.
C30_RetryAfterPartialVenv ==
    \A u \in Uploaders :
        (/\ venv[u] = "partial"
         /\ conv[u] = UPLOAD_REQUIREMENTS
         /\ sess[u].installs < MaxInstalls)
            => ENABLED (\E m \in Documents :
                           /\ handle_requirements(u, m)
                           /\ last'.op = "handle_requirements"
                           /\ last'.ok
                           /\ last'.msg = "Requirements installed successfully!")

=============================================================================
